---- MODULE Spec2Model ----
(***************************************************************************)
(* The legal RAG chat application, in its two variants: legalRag.py and    *)
(* streamlit_app.py.  One behaviour of the model is one user session of    *)
(* one variant.  A session is a sequence of script runs of main(); each    *)
(* run is started by one UI event (page load, a sidebar widget, the        *)
(* "Start Over" button or a submitted question).  A run that handles a     *)
(* question is split at the calls to the external collaborators (search    *)
(* service, completion service), which may return or raise.                *)
(***************************************************************************)
EXTENDS Integers, Sequences, FiniteSets, TLC

VARIABLES
    variant,             \* which file runs: "legalRag" or "streamlit_app"
    has_messages,        \* "messages" in st.session_state
    messages,            \* st.session_state.messages
    use_chat_history,    \* st.session_state.use_chat_history (checkbox)
    model_name,          \* st.session_state.model_name (selectbox)
    clear_conversation,  \* value of the "Start Over" button in the current run
    pc,                  \* position of the current script run
    question,            \* main: question (walrus of st.chat_input), "" if none
    raw_cases,           \* query: raw_cases
    context,             \* generate_legal_analysis: context
    chat_history_bound,  \* whether the local name chat_history is bound
    chat_history,        \* value of the local chat_history when bound
    question_summary,    \* generate_legal_analysis: question_summary
    prompt,              \* generate_legal_analysis: prompt, <<>> if not built
    summarize_calls,     \* Complete calls made by summarize_question_with_history in this run
    complete_calls,      \* Complete calls made by generate_legal_analysis in this run
    retrieved,           \* outcome of the search call of this run: none / ok / failed
    completion,          \* outcome of the analysis Complete call of this run: none / ok / failed
    raised,              \* exception that ended this run, "none" if none
    prior,               \* history variable: messages when the current run's event arrived
    window               \* history variable: window size of the last slice computation

vars == <<variant, has_messages, messages, use_chat_history, model_name,
          clear_conversation, pc, question, raw_cases, context,
          chat_history_bound, chat_history, question_summary, prompt, summarize_calls,
          complete_calls, retrieved, completion, raised, prior, window>>

----------------------------------------------------------------------------
(* Bounds of the model *)

MaxTurns == 6       \* a question is accepted while the history is shorter than this
MaxResults == 2     \* longest result list the search service returns
MaxHistory == 8     \* longest history the window computation is applied to
MaxWindow == 8      \* largest window size the slice computation is applied with

(* Program constants *)

SLIDE_WINDOW == 7
slide_window == 5

Variants == {"legalRag", "streamlit_app"}
ModelNames == {"mistral-7b", "mistral-large", "mixtral-8x7b"}
Questions == {"q1", "q2"}
Snippets == {"Case A text", "Case B text"}
Summaries == {"extended query"}
Responses == {"analysis"}
Placeholder == "No relevant context found"
ErrText == "str(e)"

Turn(role, content) == [role |-> role, content |-> content]

Min(a, b) == IF a < b THEN a ELSE b
Max(a, b) == IF a > b THEN a ELSE b

SeqsUpTo(S, n) == UNION {[1..k -> S] : k \in 0..n}

\* response.results of the search service: rows with the requested column
SearchResults == SeqsUpTo([extracted_text : Snippets], MaxResults)

----------------------------------------------------------------------------
(* Pure functions *)

\* Python's s[start:] for a list s and an integer start (negative counts from the end)
PySliceFrom(s, start) ==
    LET n == Len(s)
        lo == IF start < 0 THEN Max(n + start, 0) ELSE Min(start, n)
    IN  [i \in 1..(n - lo) |-> s[lo + i]]

\* mutant of get_chat_history_with: the max(0, ...) clamp is left out
get_chat_history_unclamped(msgs, W) ==
    LET start_index == Len(msgs) - W
    IN  PySliceFrom(msgs, start_index)

\* mutant of get_chat_history_with: the newest turn is left out of the window
get_chat_history_stale(msgs, W) ==
    LET start_index == Max(0, Len(msgs) - W)
        w == PySliceFrom(msgs, start_index)
    IN  [i \in 1..(Len(w) - 1) |-> w[i]]

\* get_chat_history with the window size as a parameter
get_chat_history_with(msgs, W) ==
    LET start_index == Max(0, Len(msgs) - W)
    IN  PySliceFrom(msgs, start_index)

SlideWindow(v) == IF v = "legalRag" THEN SLIDE_WINDOW ELSE slide_window

get_chat_history(v, msgs) == get_chat_history_with(msgs, SlideWindow(v))

\* mutant of init_messages: the history is re-initialised on every call
init_messages_always(v, clear, has, msgs) == <<>>

\* init_messages: the value of st.session_state.messages after the call
init_messages(v, clear, has, msgs) ==
    IF v = "streamlit_app"
    THEN IF clear \/ ~has THEN <<>> ELSE msgs
    ELSE IF ~has THEN <<>> ELSE msgs

\* CortexSearchRetriever.retrieve, given response.results
retrieve(results) ==
    IF Len(results) > 0
    THEN [i \in 1..Len(results) |-> results[i].extracted_text]
    ELSE <<>>

\* generate_legal_analysis of streamlit_app.py: context after the empty check
OrPlaceholder(ctx) == IF Len(ctx) = 0 THEN <<Placeholder>> ELSE ctx

\* The rendered f-string, as the sequence of its literal and interpolated parts.
\* Only called with a non-empty ctx (ctx[1] is Python's context[0]).
BuildPrompt(v, q, summary, ctx) ==
    IF v = "legalRag"
    THEN <<"PREAMBLE", "Scenario Question:", q,
           "Context:", ctx[1], "INSTRUCTIONS">>
    ELSE <<"PREAMBLE", "Scenario Question:", q,
           "<chat history>", summary, "</chat history>",
           "Context:", ctx[1], "INSTRUCTIONS">>

\* the model generate_legal_analysis passes to Complete
AnalysisModel(v) == IF v = "legalRag" THEN "mistral-large" ELSE "mistral-7b"

\* mutant of HistoryEnabled: the toggle is not consulted
HistoryAlways == TRUE

\* generate_legal_analysis of streamlit_app.py: the condition binding chat_history
HistoryEnabled == use_chat_history

Embeds(p, text) == \E i \in 1..Len(p) : p[i] = text

----------------------------------------------------------------------------
(* Initial state: a new session, before the first script run.  The widget  *)
(* values are the defaults config_options gives them.                      *)

Init ==
    /\ variant \in Variants
    /\ has_messages = FALSE
    /\ messages = <<>>
    /\ use_chat_history = TRUE
    /\ model_name = "mistral-7b"
    /\ clear_conversation = FALSE
    /\ pc = "idle"
    /\ question = ""
    /\ raw_cases = <<>>
    /\ context = <<>>
    /\ chat_history_bound = FALSE
    /\ chat_history = <<>>
    /\ question_summary = ""
    /\ prompt = <<>>
    /\ summarize_calls = <<>>
    /\ complete_calls = <<>>
    /\ retrieved = "none"
    /\ completion = "none"
    /\ raised = "none"
    /\ prior = <<>>
    /\ window = 0

\* The names and records of a script run that has not reached query yet
FreshRun ==
    /\ raw_cases' = <<>>
    /\ context' = <<>>
    /\ question_summary' = ""
    /\ prompt' = <<>>
    /\ summarize_calls' = <<>>
    /\ complete_calls' = <<>>
    /\ retrieved' = "none"
    /\ completion' = "none"
    /\ raised' = "none"
    /\ prior' = messages

\* A script run of main() that finds no question in st.chat_input
RunWithoutQuestion(clear, has, msgs) ==
    /\ messages' = init_messages(variant, clear, has, msgs)
    /\ has_messages' = TRUE
    /\ clear_conversation' = clear
    /\ question' = ""
    /\ chat_history_bound' = FALSE
    /\ chat_history' = <<>>
    /\ pc' = "idle"
    /\ FreshRun
    /\ UNCHANGED <<variant, window>>

\* The first script run of the session
Load ==
    /\ pc = "idle"
    /\ ~has_messages
    /\ RunWithoutQuestion(FALSE, has_messages, messages)
    /\ UNCHANGED <<use_chat_history, model_name>>

\* The "Remember chat history?" checkbox is flipped; the script reruns
ToggleHistory ==
    /\ pc = "idle"
    /\ has_messages
    /\ use_chat_history' = ~use_chat_history
    /\ RunWithoutQuestion(FALSE, has_messages, messages)
    /\ UNCHANGED model_name

\* A model is chosen in the selectbox; the script reruns
SelectModel ==
    /\ pc = "idle"
    /\ has_messages
    /\ \E m \in ModelNames : model_name' = m
    /\ RunWithoutQuestion(FALSE, has_messages, messages)
    /\ UNCHANGED use_chat_history

\* "Start Over": the on_click callback init_messages runs with the button's
\* value set, then the script reruns with the button's value still set
StartOver ==
    /\ pc = "idle"
    /\ has_messages
    /\ RunWithoutQuestion(TRUE, TRUE, init_messages(variant, TRUE, has_messages, messages))
    /\ UNCHANGED <<use_chat_history, model_name>>

\* A question is submitted in st.chat_input: the script reruns, main appends the
\* user turn and (legalRag.py) takes the window, then query calls the search service
Submit ==
    /\ pc = "idle"
    /\ has_messages
    /\ Len(messages) < MaxTurns
    /\ \E q \in Questions :
         LET shown == init_messages(variant, FALSE, has_messages, messages)
             appended == Append(shown, Turn("user", q))
         IN  /\ messages' = appended
             /\ question' = q
             /\ chat_history_bound' = (variant = "legalRag")
             /\ chat_history' = IF variant = "legalRag"
                                THEN get_chat_history(variant, appended)
                                ELSE <<>>
    /\ clear_conversation' = FALSE
    /\ pc' = "retrieve"
    /\ window' = IF variant = "legalRag" THEN SlideWindow(variant) ELSE window
    /\ FreshRun
    /\ UNCHANGED <<variant, has_messages, use_chat_history, model_name>>

\* The exception leaves main: the script run ends where it is
Propagate(exc) ==
    /\ raised' = exc
    /\ pc' = "idle"

\* mutant of RetrieveFails: the failure is swallowed and query goes on to
\* generate_legal_analysis with a context that was never retrieved
RetrieveFailsGoesOn ==
    /\ pc = "retrieve"
    /\ retrieved' = "failed"
    /\ raw_cases' = <<"undefined">>
    /\ pc' = "generate"
    /\ UNCHANGED <<variant, has_messages, messages, use_chat_history, model_name,
                   clear_conversation, question, context, chat_history_bound, chat_history,
                   question_summary, prompt, summarize_calls, complete_calls,
                   completion, raised, prior, window>>

\* The search service raises: the exception leaves retrieve, query and main
RetrieveFails ==
    /\ pc = "retrieve"
    /\ retrieved' = "failed"
    /\ Propagate("RetrievalFailure")
    /\ UNCHANGED <<variant, has_messages, messages, use_chat_history, model_name,
                   clear_conversation, question, raw_cases, context,
                   chat_history_bound, chat_history, question_summary, prompt,
                   summarize_calls, complete_calls, completion, prior, window>>

\* The search service answers: retrieve returns the texts to query
RetrieveReturns ==
    /\ pc = "retrieve"
    /\ \E results \in SearchResults : raw_cases' = retrieve(results)
    /\ retrieved' = "ok"
    /\ pc' = "generate"
    /\ UNCHANGED <<variant, has_messages, messages, use_chat_history, model_name,
                   clear_conversation, question, context, chat_history_bound, chat_history,
                   question_summary, prompt, summarize_calls, complete_calls,
                   completion, raised, prior, window>>

\* generate_legal_analysis from the prompt template to the Complete call
CallComplete(summary, ctx) ==
    LET p == BuildPrompt(variant, question, summary, ctx)
    IN  /\ prompt' = p
        /\ complete_calls' = Append(complete_calls,
                                [model |-> AnalysisModel(variant), prompt |-> p])
        /\ pc' = "complete"

\* legalRag.py: generate_legal_analysis up to its Complete call
GenerateLegalRag ==
    /\ pc = "generate"
    /\ variant = "legalRag"
    /\ context' = raw_cases
    /\ IF Len(raw_cases) = 0
       THEN /\ Propagate("IndexError")
            /\ UNCHANGED <<prompt, complete_calls>>
       ELSE /\ CallComplete("", raw_cases)
            /\ UNCHANGED raised
    /\ UNCHANGED <<has_messages, messages, use_chat_history, model_name,
                   clear_conversation, question, raw_cases, chat_history_bound,
                   chat_history, question_summary, summarize_calls, retrieved,
                   completion, prior, window, variant>>

\* streamlit_app.py: generate_legal_analysis up to its first Complete call
GenerateStreamlit ==
    /\ pc = "generate"
    /\ variant = "streamlit_app"
    /\ LET bound == HistoryEnabled
           taken == IF bound THEN get_chat_history(variant, messages) ELSE <<>>
       IN  /\ chat_history_bound' = bound
           /\ chat_history' = taken
           /\ window' = IF bound THEN SlideWindow(variant) ELSE window
           /\ IF ~bound
              THEN /\ Propagate("UnboundLocalError")
                   /\ context' = raw_cases
                   /\ UNCHANGED <<summarize_calls, prompt, complete_calls>>
              ELSE IF Len(taken) > 0
              THEN /\ summarize_calls' = Append(summarize_calls,
                          [model |-> model_name, chat_history |-> taken,
                           question |-> question])
                   /\ pc' = "summarize"
                   /\ context' = raw_cases
                   /\ UNCHANGED <<raised, prompt, complete_calls>>
              ELSE /\ context' = OrPlaceholder(raw_cases)
                   /\ CallComplete("", OrPlaceholder(raw_cases))
                   /\ UNCHANGED <<raised, summarize_calls>>
    /\ UNCHANGED <<has_messages, messages, use_chat_history, model_name,
                   clear_conversation, question, raw_cases, question_summary,
                   retrieved, completion, prior, variant>>

\* The Complete call of summarize_question_with_history raises: nothing catches it
SummarizeFails ==
    /\ pc = "summarize"
    /\ Propagate("SummarizerFailure")
    /\ UNCHANGED <<variant, has_messages, messages, use_chat_history, model_name,
                   clear_conversation, question, raw_cases, context, chat_history_bound,
                   chat_history, question_summary, prompt, summarize_calls,
                   complete_calls, retrieved, completion, prior, window>>

\* The Complete call of summarize_question_with_history returns; generate_legal_analysis
\* substitutes the placeholder, renders the prompt and calls Complete
SummarizeReturns ==
    /\ pc = "summarize"
    /\ \E text \in Summaries :
         /\ question_summary' = text
         /\ context' = OrPlaceholder(context)
         /\ CallComplete(text, OrPlaceholder(context))
    /\ UNCHANGED <<variant, has_messages, messages, use_chat_history, model_name,
                   clear_conversation, question, raw_cases, chat_history_bound,
                   chat_history, summarize_calls, retrieved, completion, raised,
                   prior, window>>

\* main: the response is rendered and appended as the assistant turn
AppendResponse(response) ==
    /\ messages' = Append(messages, Turn("assistant", response))
    /\ pc' = "idle"

\* The analysis Complete call returns: query returns the text to main
CompleteReturns ==
    /\ pc = "complete"
    /\ completion' = "ok"
    /\ \E text \in Responses : AppendResponse(text)
    /\ UNCHANGED <<variant, has_messages, use_chat_history, model_name,
                   clear_conversation, question, raw_cases, context, chat_history_bound,
                   chat_history, question_summary, prompt, summarize_calls,
                   complete_calls, retrieved, raised, prior, window>>

\* mutant of OnCompleteFailure: the two variants' policies are exchanged
OnCompleteFailureSwapped ==
    IF variant = "legalRag"
    THEN /\ AppendResponse(ErrText)
         /\ UNCHANGED raised
    ELSE /\ Propagate("GenerationFailure")
         /\ UNCHANGED messages

\* What follows an exception of the analysis Complete call
OnCompleteFailure ==
    IF variant = "legalRag"
    THEN /\ Propagate("GenerationFailure")
         /\ UNCHANGED messages
    ELSE /\ AppendResponse(ErrText)
         /\ UNCHANGED raised

\* The analysis Complete call raises
CompleteFails ==
    /\ pc = "complete"
    /\ completion' = "failed"
    /\ OnCompleteFailure
    /\ UNCHANGED <<variant, has_messages, use_chat_history, model_name,
                   clear_conversation, question, raw_cases, context, chat_history_bound,
                   chat_history, question_summary, prompt, summarize_calls,
                   complete_calls, retrieved, prior, window>>

Next ==
    \/ Load
    \/ ToggleHistory
    \/ SelectModel
    \/ StartOver
    \/ Submit
    \/ RetrieveFails
    \/ RetrieveReturns
    \/ GenerateLegalRag
    \/ GenerateStreamlit
    \/ SummarizeFails
    \/ SummarizeReturns
    \/ CompleteReturns
    \/ CompleteFails

Spec == Init /\ [][Next]_vars

----------------------------------------------------------------------------
(* The window computation on its own: get_chat_history applied to histories *)
(* of any length up to MaxHistory, with the variant's window size and with  *)
(* every window size up to MaxWindow.                                       *)

WindowTurns ==
    {Turn("user", q) : q \in Questions} \cup {Turn("assistant", r) : r \in Responses}

WindowInit ==
    /\ variant \in Variants
    /\ has_messages = TRUE
    /\ messages \in SeqsUpTo(WindowTurns, MaxHistory)
    /\ use_chat_history = TRUE
    /\ model_name = "mistral-7b"
    /\ clear_conversation = FALSE
    /\ pc = "idle"
    /\ question = ""
    /\ raw_cases = <<>>
    /\ context = <<>>
    /\ chat_history_bound = FALSE
    /\ chat_history = <<>>
    /\ question_summary = ""
    /\ prompt = <<>>
    /\ summarize_calls = <<>>
    /\ complete_calls = <<>>
    /\ retrieved = "none"
    /\ completion = "none"
    /\ raised = "none"
    /\ prior = messages
    /\ window = 0

\* chat_history = get_chat_history() as the variant's code calls it
TakeWindow ==
    /\ ~chat_history_bound
    /\ chat_history' = get_chat_history(variant, messages)
    /\ chat_history_bound' = TRUE
    /\ window' = SlideWindow(variant)
    /\ UNCHANGED <<variant, has_messages, messages, use_chat_history, model_name,
                   clear_conversation, pc, question, raw_cases, context,
                   question_summary, prompt, summarize_calls, complete_calls,
                   retrieved, completion, raised, prior>>

\* the same slice computation with another window size
TakeWindowOfSize ==
    /\ ~chat_history_bound
    /\ \E W \in 0..MaxWindow :
         /\ chat_history' = get_chat_history_with(messages, W)
         /\ window' = W
    /\ chat_history_bound' = TRUE
    /\ UNCHANGED <<variant, has_messages, messages, use_chat_history, model_name,
                   clear_conversation, pc, question, raw_cases, context,
                   question_summary, prompt, summarize_calls, complete_calls,
                   retrieved, completion, raised, prior>>

WindowNext == TakeWindow \/ TakeWindowOfSize

WindowSpec == WindowInit /\ [][WindowNext]_vars

----------------------------------------------------------------------------
(* Properties *)

\* the last k elements of s, in their order
LastTurns(s, k) == [i \in 1..k |-> s[Len(s) - k + i]]

\* generate_legal_analysis has run past the point where it renders the prompt
PastPromptBuilding == retrieved = "ok" /\ pc \notin {"generate", "summarize"}

\* the script run handled a question and has ended
QuestionHandled == pc = "idle" /\ question # ""

\* the part of a rendered prompt that follows "Context:"
PromptContext(p) == p[Len(p) - 1]

\* C1: whenever generate_legal_analysis was passed a retrieved context of
\* length N, a prompt is built; it embeds snippet 0 and no other snippet when
\* N > 0, and the placeholder and no snippet when N = 0.
C1_PromptEmbedsFirstSnippet ==
    PastPromptBuilding =>
        /\ prompt # <<>>
        /\ IF Len(raw_cases) > 0
           THEN /\ Embeds(prompt, raw_cases[1])
                /\ ~Embeds(prompt, Placeholder)
                /\ \A i \in 2..Len(raw_cases) :
                     raw_cases[i] # raw_cases[1] => ~Embeds(prompt, raw_cases[i])
           ELSE /\ Embeds(prompt, Placeholder)
                /\ \A t \in Snippets : ~Embeds(prompt, t)

\* C2: in the run started by the "Start Over" button the history is empty,
\* whatever it was before.
C2_ResetEmptiesHistory == clear_conversation => messages = <<>>

\* C3: once a question whose search call returned a result (empty or not) has
\* been handled, under either setting of the toggle and any outcome of the
\* completion calls, the history is the history before the question followed by
\* the user turn holding the question and one assistant turn.
C3_QuestionAddsTwoTurns ==
    (QuestionHandled /\ retrieved = "ok") =>
        \E r \in Responses \cup {ErrText} :
            messages = prior \o <<Turn("user", question), Turn("assistant", r)>>

\* C4: the window taken by get_chat_history is the last min(W, length) turns of
\* the history in their order, and the history is as it was; for the variant's
\* window size and for every window size from 0 to MaxWindow.
C4_WindowIsLastTurns ==
    chat_history_bound =>
        /\ chat_history = LastTurns(messages, Min(window, Len(messages)))
        /\ messages = prior

C4_Witness ==
    /\ chat_history_bound
    /\ variant = "legalRag"
    /\ window = SLIDE_WINDOW
    /\ Len(messages) > SLIDE_WINDOW
    /\ Len(chat_history) = SLIDE_WINDOW
    /\ chat_history[1] = messages[Len(messages) - SLIDE_WINDOW + 1]

\* C5: the summarizer is called only with the toggle enabled and a non-empty
\* window, which is what it is passed; with the toggle disabled it is not called.
C5_SummarizerOnlyWithHistory ==
    /\ summarize_calls # <<>> =>
          /\ use_chat_history
          /\ chat_history_bound
          /\ Len(chat_history) > 0
          /\ \A i \in 1..Len(summarize_calls) :
               summarize_calls[i].chat_history = chat_history
    /\ ~use_chat_history => summarize_calls = <<>>

C5_Witness ==
    /\ variant = "streamlit_app"
    /\ ~use_chat_history
    /\ QuestionHandled
    /\ retrieved = "ok"
    /\ Len(prior) > 0
    /\ summarize_calls = <<>>

\* C6: after a failure of the search call, either no completion call is made
\* or every analysis call's prompt carries the placeholder as its context.
C6_NoUndefinedContext ==
    retrieved = "failed" =>
        \/ complete_calls = <<>> /\ summarize_calls = <<>>
        \/ /\ complete_calls # <<>>
           /\ \A i \in 1..Len(complete_calls) :
                PromptContext(complete_calls[i].prompt) = Placeholder

C6_Witness ==
    /\ retrieved = "failed"
    /\ QuestionHandled
    /\ raised = "RetrievalFailure"
    /\ complete_calls = <<>>
    /\ summarize_calls = <<>>

\* C7: every step leaves the history unchanged, or appends one turn to it, or,
\* in the run started by the "Start Over" button only, makes it empty.
C7_AppendOnly ==
    [][ \/ messages' = messages
        \/ /\ Len(messages') = Len(messages) + 1
           /\ SubSeq(messages', 1, Len(messages)) = messages
        \/ /\ clear_conversation'
           /\ messages' = <<>> ]_vars

C7_Witness ==
    /\ variant = "streamlit_app"
    /\ clear_conversation
    /\ Len(prior) >= 2
    /\ messages = <<>>

\* C8: the session leaves Processing for Idle only by the step that appends
\* the assistant turn to the history.
C8_IdleOnlyAfterAssistantTurn ==
    [][ (pc # "idle" /\ pc' = "idle") =>
          \E r \in Responses \cup {ErrText} :
              messages' = Append(messages, Turn("assistant", r)) ]_vars

\* C9: when the analysis completion call fails, legalRag.py lets the exception
\* leave the run and appends nothing; streamlit_app.py appends the error's
\* string as the assistant turn and raises nothing.
C9_FailurePolicy ==
    [][ (completion # "failed" /\ completion' = "failed") =>
          /\ pc' = "idle"
          /\ IF variant = "legalRag"
             THEN /\ raised' = "GenerationFailure"
                  /\ messages' = messages
             ELSE /\ raised' = "none"
                  /\ messages' = Append(messages, Turn("assistant", ErrText)) ]_vars

C9_Witness ==
    /\ variant = "streamlit_app"
    /\ completion = "failed"
    /\ QuestionHandled
    /\ raised = "none"
    /\ messages = prior \o <<Turn("user", question), Turn("assistant", ErrText)>>

\* every summarizer call of the run was passed a non-empty window whose last
\* turn is the user turn of the question being handled
SummarizerSeesQuestion ==
    \A i \in 1..Len(summarize_calls) :
        LET h == summarize_calls[i].chat_history
        IN  /\ Len(h) > 0
            /\ h[Len(h)] = Turn("user", question)

\* C10 as stated: in streamlit_app.py the summarizer is passed a non-empty
\* window ending in the current question's user turn, and with the toggle
\* enabled it has been called for every question handled.
C10_SummarizerForEveryQuestion ==
    variant = "streamlit_app" =>
        /\ SummarizerSeesQuestion
        /\ (use_chat_history /\ QuestionHandled) => summarize_calls # <<>>

\* C10 amended: in streamlit_app.py the summarizer is passed a non-empty window
\* ending in the current question's user turn, and with the toggle enabled it
\* is called for every question whose search call returned.
C10_SummarizerForEveryRetrievedQuestion ==
    variant = "streamlit_app" =>
        /\ SummarizerSeesQuestion
        /\ (use_chat_history /\ retrieved = "ok" /\ pc # "generate")
              => summarize_calls # <<>>

C10_Witness ==
    /\ variant = "streamlit_app"
    /\ clear_conversation = FALSE
    /\ prior = <<>>
    /\ pc = "summarize"
    /\ summarize_calls # <<>>
    /\ summarize_calls[1].chat_history = <<Turn("user", question)>>

====
